---------------------------- MODULE Spec2Model ----------------------------
(***************************************************************************)
(* Model of src/src/api.rs: the Keypair type (generation, clone, release,  *)
(* secret comparison, debug rendering, signing) and the verify entry       *)
(* point.  The lattice primitives of crate::sign and the constant_time_eq  *)
(* crate are not part of api.rs; they are modelled by small stand-ins that *)
(* keep the contract api.rs relies on.  Array widths are scaled down.      *)
(***************************************************************************)
EXTENDS Integers, Sequences, FiniteSets, TLC

\* ------------------------------------------------------------- bounds
\* Scaled-down widths of the fixed-size arrays (api.rs imports the real ones).
PUBLICKEYBYTES == 1
SECRETKEYBYTES == 2
SIGNBYTES == 2
SEEDBYTES == 1
\* Storage locations that can hold a Keypair value at the same time.
MaxSlots == 2
\* Longest message handed to sign / verify.
MaxMsgLen == 1

\* u8: the element type of every buffer.
U8 == 256
\* The byte values inputs are drawn from.
ByteVals == {0, 255}

Slots == 1..MaxSlots

RECURSIVE SeqsOfLen(_)
SeqsOfLen(n) ==
  IF n = 0 THEN {<<>>}
  ELSE {Append(s, b) : s \in SeqsOfLen(n - 1), b \in ByteVals}

SeqsUpTo(n) == UNION {SeqsOfLen(k) : k \in 0..n}

Fill(n, b) == [i \in 1..n |-> b]
Zeros(n) == Fill(n, 0)

\* Seeds the callers pass: constant-filled arrays, as [3u8; SEEDBYTES] in the doc test.
Seeds == {Fill(SEEDBYTES, b) : b \in ByteVals}
Msgs == SeqsUpTo(MaxMsgLen)

RECURSIVE SumSeq(_)
SumSeq(s) == IF s = <<>> THEN 0 ELSE Head(s) + SumSeq(Tail(s))

RECURSIVE BitXor(_, _)
BitXor(a, b) ==
  IF a = 0 /\ b = 0 THEN 0
  ELSE (((a % 2) + (b % 2)) % 2) + 2 * BitXor(a \div 2, b \div 2)

RECURSIVE BitOr(_, _)
BitOr(a, b) ==
  IF a = 0 /\ b = 0 THEN 0
  ELSE (IF (a % 2) = 1 \/ (b % 2) = 1 THEN 1 ELSE 0) + 2 * BitOr(a \div 2, b \div 2)

\* ------------------------------------------- the signing primitive
\* crate::sign is outside api.rs.  The stand-in keeps its contract: keypair
\* derivation is a function of the seed (a random one when none is given),
\* a signature computed with a secret verifies under the matching public key.
\* Option::None for the seed argument (a seed has SEEDBYTES >= 1 bytes).
None == <<>>

SeedByte(seed, i) == seed[((i - 1) % SEEDBYTES) + 1]

KeyDerive(seed) ==
  [public |-> [i \in 1..PUBLICKEYBYTES |-> (U8 - 1) - SeedByte(seed, i)],
   secret |-> [i \in 1..SECRETKEYBYTES |-> (SeedByte(seed, i) + i) % U8]]

crypto_sign_keypair(seed, rnd) ==
  KeyDerive(IF seed = None THEN rnd ELSE seed)

MsgDigest(msg) == (SumSeq(msg) + 7 * Len(msg)) % U8

crypto_sign_signature(msg, secret) ==
  [i \in 1..SIGNBYTES |->
     (secret[((i - 1) % SECRETKEYBYTES) + 1] + MsgDigest(msg)) % U8]

SigAccepted(sig, msg, pk) ==
  \E seed \in Seeds :
    /\ KeyDerive(seed).public = pk
    /\ crypto_sign_signature(msg, KeyDerive(seed).secret) = sig

\* The outcomes a call of the verification primitive can have.  Its contract
\* covers public keys of PUBLICKEYBYTES bytes: there it accepts or rejects.
\* Handed a slice of another length it unpacks fixed offsets of it, which
\* may read past its end, so no outcome is excluded.
crypto_sign_verify(sig, msg, pk) ==
  IF Len(pk) = PUBLICKEYBYTES
  THEN IF SigAccepted(sig, msg, pk) THEN {"Ok"} ELSE {"Verify"}
  ELSE {"Ok", "Verify", "panic"}

\* constant_time_eq crate: equal lengths, then OR of the XOR of every byte pair.
RECURSIVE constant_time_ne(_, _, _, _)
constant_time_ne(a, b, i, tmp) ==
  IF i > Len(a) THEN [tmp |-> tmp, examined |-> i - 1]
  ELSE constant_time_ne(a, b, i + 1, BitOr(tmp, BitXor(a[i], b[i])))

constant_time_eq(a, b) ==
  IF Len(a) # Len(b) THEN [equal |-> FALSE, examined |-> 0]
  ELSE LET r == constant_time_ne(a, b, 1, 0)
       IN [equal |-> r.tmp = 0, examined |-> r.examined]

\* Slice equality as derived PartialEq does it: stop at the first mismatch.
RECURSIVE slice_eq(_, _, _)
slice_eq(a, b, i) ==
  IF i > Len(a) THEN [equal |-> TRUE, examined |-> i - 1]
  ELSE IF a[i] # b[i] THEN [equal |-> FALSE, examined |-> i]
  ELSE slice_eq(a, b, i + 1)

\* ------------------------------------------------------------ state
VARIABLES
  heap,        \* Slots -> [live, public, secret]: the storage of Keypair values
  frame,       \* the bytes left in the released locals of the last generate call
  lastSeeded,  \* the previous generate_with_seed call: its seed and what it returned
  inp,         \* the caller's buffers handed to verify: [sig, msg, pk]
  ret          \* the last operation and what it returned

vars == <<heap, frame, lastSeeded, inp, ret>>

ZeroKeypair == [public |-> Zeros(PUBLICKEYBYTES), secret |-> Zeros(SECRETKEYBYTES)]
Dead == [live |-> FALSE, public |-> ZeroKeypair.public, secret |-> ZeroKeypair.secret]
Live(kp) == [live |-> TRUE, public |-> kp.public, secret |-> kp.secret]
Value(cell) == [public |-> cell.public, secret |-> cell.secret]

NoInput == [sig |-> <<>>, msg |-> <<>>, pk |-> <<>>]
NoCall == [called |-> FALSE, seed |-> Zeros(SEEDBYTES),
           public |-> ZeroKeypair.public, secret |-> ZeroKeypair.secret]

Init ==
  /\ heap = [s \in Slots |-> Dead]
  /\ frame = ZeroKeypair
  /\ lastSeeded = NoCall
  /\ inp = NoInput
  /\ ret = [op |-> "init"]

\* --------------------------------------------------- Keypair methods
\* generate_with_seed: the primitive is handed Some(&seed); rnd is the process
\* randomness source, which this call does not consult.
generate_with_seed_random(seed, rnd) == crypto_sign_keypair(None, rnd)

generate_with_seed(seed, rnd) == crypto_sign_keypair(seed, rnd)

generate(rnd) == crypto_sign_keypair(None, rnd)

expose_secret(self) == self.secret

compare_secrets_derived_eq(self, keys) ==
  LET p == slice_eq(self.public, keys.public, 1)
      s == slice_eq(self.secret, keys.secret, 1)
  IN IF p.equal THEN [equal |-> s.equal, examined |-> s.examined]
     ELSE [equal |-> FALSE, examined |-> 0]

compare_secrets_short_circuit(self, keys) == slice_eq(self.secret, keys.secret, 1)

compare_secrets(self, keys) == constant_time_eq(self.secret, keys.secret)

sign_empty_msg(self, msg) == crypto_sign_signature(<<>>, self.secret)

sign(self, msg) == crypto_sign_signature(msg, self.secret)

\* {:?} of a byte array: "[b1, b2, ...]".
RECURSIVE DebugItems(_, _)
DebugItems(bytes, i) ==
  IF i > Len(bytes) THEN <<>>
  ELSE (IF i = 1 THEN <<>> ELSE <<", ">>) \o <<ToString(bytes[i])>>
       \o DebugItems(bytes, i + 1)

DebugBytes(bytes) == <<"[">> \o DebugItems(bytes, 1) \o <<"]">>

fmt_derived(self) ==
  <<"public: ">> \o DebugBytes(self.public) \o <<"\nsecret: ">> \o DebugBytes(self.secret)

fmt(self) ==
  <<"public: ">> \o DebugBytes(self.public) \o <<"\nsecret: <elided>">>

\* verify: prim is the outcome the primitive has if it is called.
verify_no_length_check(sig, msg, public_key, prim) ==
  [result |-> prim, primArgs |-> <<<<sig, msg, public_key>>>>]

verify_reject_as_ok(sig, msg, public_key, prim) ==
  IF Len(sig) # SIGNBYTES
  THEN [result |-> "Input", primArgs |-> <<>>]
  ELSE [result |-> IF prim = "Verify" THEN "Ok" ELSE prim,
        primArgs |-> <<<<sig, msg, public_key>>>>]

verify(sig, msg, public_key, prim) ==
  IF Len(sig) # SIGNBYTES
  THEN [result |-> "Input", primArgs |-> <<>>]
  ELSE [result |-> prim, primArgs |-> <<<<sig, msg, public_key>>>>]

\* ------------------------------------------------------------ actions
\* The locals public/secret of generate are copied into the returned Keypair;
\* the build either constructs the value in place (elide) or leaves the copy
\* behind in the released frame.
Generate(s) ==
  /\ ~heap[s].live
  /\ \E rnd \in Seeds, elide \in BOOLEAN :
       LET kp == generate(rnd) IN
       /\ heap' = [heap EXCEPT ![s] = Live(kp)]
       /\ frame' = IF elide THEN frame ELSE kp
       /\ ret' = [op |-> "generate", slot |-> s]
  /\ UNCHANGED <<lastSeeded, inp>>

GenerateWithSeed(s, seed) ==
  /\ ~heap[s].live
  /\ \E rnd \in Seeds, elide \in BOOLEAN :
       LET kp == generate_with_seed(seed, rnd) IN
       /\ heap' = [heap EXCEPT ![s] = Live(kp)]
       /\ frame' = IF elide THEN frame ELSE kp
       /\ lastSeeded' = [called |-> TRUE, seed |-> seed,
                         public |-> kp.public, secret |-> kp.secret]
       /\ ret' = [op |-> "generate_with_seed", slot |-> s, seed |-> seed,
                  public |-> kp.public, secret |-> kp.secret, prev |-> lastSeeded]
  /\ UNCHANGED inp

\* derive(Clone): a field-wise copy into storage of its own.
Clone(s, t) ==
  /\ heap[s].live /\ ~heap[t].live
  /\ heap' = [heap EXCEPT ![t] = heap[s]]
  /\ ret' = [op |-> "clone", slot |-> t, from |-> s]
  /\ UNCHANGED <<frame, lastSeeded, inp>>

\* derive(ZeroizeOnDrop): both fields are zeroized as the value is dropped.
Drop(s) ==
  /\ heap[s].live
  /\ heap' = [heap EXCEPT ![s] = Dead]
  /\ ret' = [op |-> "drop", slot |-> s]
  /\ UNCHANGED <<frame, lastSeeded, inp>>

\* derive(Zeroize): Zeroize::zeroize(&mut self) on a value that stays live.
ZeroizeCall(s) ==
  /\ heap[s].live
  /\ heap' = [heap EXCEPT ![s] = Live(ZeroKeypair)]
  /\ ret' = [op |-> "zeroize", slot |-> s]
  /\ UNCHANGED <<frame, lastSeeded, inp>>

\* `pub public`: a holder of a mutable Keypair assigns the field.
WritePublic(s, b) ==
  /\ heap[s].live
  /\ heap' = [heap EXCEPT ![s].public = Fill(PUBLICKEYBYTES, b)]
  /\ ret' = [op |-> "write_public", slot |-> s]
  /\ UNCHANGED <<frame, lastSeeded, inp>>

ExposeSecret(s) ==
  /\ heap[s].live
  /\ ret' = [op |-> "expose_secret", slot |-> s, bytes |-> expose_secret(heap[s])]
  /\ UNCHANGED <<heap, frame, lastSeeded, inp>>

CompareSecrets(a, b) ==
  /\ heap[a].live /\ heap[b].live
  /\ LET r == compare_secrets(heap[a], heap[b]) IN
     ret' = [op |-> "compare_secrets", slot |-> a, other |-> b,
             equal |-> r.equal, examined |-> r.examined]
  /\ UNCHANGED <<heap, frame, lastSeeded, inp>>

DebugFmt(s) ==
  /\ heap[s].live
  /\ ret' = [op |-> "fmt", slot |-> s, text |-> fmt(heap[s])]
  /\ UNCHANGED <<heap, frame, lastSeeded, inp>>

Sign(s, msg) ==
  /\ heap[s].live
  /\ ret' = [op |-> "sign", slot |-> s, msg |-> msg, sig |-> sign(heap[s], msg)]
  /\ UNCHANGED <<heap, frame, lastSeeded, inp>>

\* The doc test of verify: sig = keys.sign(&msg); verify(&sig, &msg, &keys.public).
SignVerify(s, msg) ==
  /\ heap[s].live
  /\ LET sig == sign(heap[s], msg) IN
     \E prim \in crypto_sign_verify(sig, msg, heap[s].public) :
       ret' = [op |-> "sign_verify", slot |-> s, msg |-> msg, sig |-> sig,
               result |-> verify(sig, msg, heap[s].public, prim).result]
  /\ UNCHANGED <<heap, frame, lastSeeded, inp>>

\* verify on the caller's buffers.
VerifyCall ==
  /\ \E prim \in crypto_sign_verify(inp.sig, inp.msg, inp.pk) :
       LET r == verify(inp.sig, inp.msg, inp.pk, prim) IN
       ret' = [op |-> "verify", result |-> r.result, primArgs |-> r.primArgs,
               prim |-> IF r.primArgs = <<>> THEN "not called" ELSE prim]
  /\ UNCHANGED <<heap, frame, lastSeeded, inp>>

Next ==
  \/ \E s \in Slots : Generate(s)
  \/ \E s \in Slots, seed \in Seeds : GenerateWithSeed(s, seed)
  \/ \E s, t \in Slots : Clone(s, t)
  \/ \E s \in Slots : Drop(s)
  \/ \E s \in Slots, b \in ByteVals : WritePublic(s, b)
  \/ \E s \in Slots : ZeroizeCall(s)
  \/ \E s \in Slots : ExposeSecret(s)
  \/ \E a, b \in Slots : CompareSecrets(a, b)
  \/ \E s \in Slots : DebugFmt(s)
  \/ \E s \in Slots, msg \in Msgs : Sign(s, msg)
  \/ \E s \in Slots, msg \in Msgs : SignVerify(s, msg)

Spec == Init /\ [][Next]_vars

\* ---------------------------------------- verify as a function of its inputs
\* Signatures the primitive computes, besides every short byte string.
ComputedSigs ==
  {crypto_sign_signature(m, KeyDerive(seed).secret) : m \in Msgs, seed \in Seeds}

InitVerify ==
  /\ heap = [s \in Slots |-> Dead]
  /\ frame = ZeroKeypair
  /\ lastSeeded = NoCall
  /\ ret = [op |-> "init"]
  /\ inp \in [sig : SeqsUpTo(SIGNBYTES + 1) \cup ComputedSigs,
              msg : Msgs,
              pk : SeqsUpTo(PUBLICKEYBYTES + 1)]

NextVerify == VerifyCall

SpecVerify == InitVerify /\ [][NextVerify]_vars

\* ------------------------- the readers as functions of the Keypair values
\* Keypair values with every byte content: the secret is whatever the
\* primitive derived, the public field is assignable.
KeypairValues ==
  {[public |-> p, secret |-> k] :
     p \in SeqsOfLen(PUBLICKEYBYTES), k \in SeqsOfLen(SECRETKEYBYTES)}

InitValues ==
  /\ \E a \in KeypairValues :
       \E b \in {Live(v) : v \in KeypairValues} \cup {Dead} :
         heap = [s \in Slots |-> IF s = 1 THEN Live(a) ELSE IF s = 2 THEN b ELSE Dead]
  /\ frame = ZeroKeypair
  /\ lastSeeded = NoCall
  /\ inp = NoInput
  /\ ret = [op |-> "init"]

NextValues ==
  \/ \E s, t \in Slots : Clone(s, t)
  \/ \E a, b \in Slots : CompareSecrets(a, b)
  \/ \E s \in Slots : DebugFmt(s)

SpecValues == InitValues /\ [][NextValues]_vars

\* ------------------------------------------------------------- claims
IsDerivedPair(kp) == \E seed \in Seeds : KeyDerive(seed) = Value(kp)

\* C1: a signature whose length is not SIGNBYTES makes verify return
\* Err(Input), for every message and public key, without a call of the
\* verification primitive.
C1_LengthRejection ==
  (ret.op = "verify" /\ Len(inp.sig) # SIGNBYTES)
    => (ret.result = "Input" /\ ret.primArgs = <<>>)

C1_Witness ==
  /\ ret.op = "verify"
  /\ Len(inp.sig) = SIGNBYTES + 1
  /\ Len(inp.pk) = PUBLICKEYBYTES
  /\ ret.result = "Input"

\* C2: for a Keypair holding the pair a derivation produced and every message
\* (the empty one included), sign returns SIGNBYTES bytes and verify of that
\* signature, the message and the Keypair's public key returns Ok.
C2_RoundTrip ==
  /\ ret.op = "sign" => Len(ret.sig) = SIGNBYTES
  /\ (ret.op = "sign_verify" /\ IsDerivedPair(heap[ret.slot]))
       => (Len(ret.sig) = SIGNBYTES /\ ret.result = "Ok")

C2_Witness ==
  /\ ret.op = "sign_verify"
  /\ IsDerivedPair(heap[ret.slot])
  /\ ret.msg = <<>>
  /\ ret.result = "Ok"

\* C3: every released storage location that held key bytes is all zero: the
\* storage of every dropped Keypair (clones included) and the locals of the
\* generate calls.
C3_ReleasedStorageZero ==
  /\ \A s \in Slots : ~heap[s].live => Value(heap[s]) = ZeroKeypair
  /\ frame = ZeroKeypair

C5_SeedDeterminism ==
  (ret.op = "generate_with_seed" /\ ret.prev.called /\ ret.prev.seed = ret.seed)
    => /\ ret.public = ret.prev.public
       /\ ret.secret = ret.prev.secret
       /\ compare_secrets(ret, ret.prev).equal

C5_Witness ==
  /\ ret.op = "generate_with_seed"
  /\ ret.prev.called
  /\ ret.prev.seed = ret.seed
  /\ \E s \in Slots : s # ret.slot /\ heap[s].live

\* C6: every live Keypair holds the (public, secret) pair one derivation
\* produced: nothing changes a field after construction.
C6_KeypairIntegrity ==
  \A s \in Slots : heap[s].live => IsDerivedPair(heap[s])

\* C7: with a signature of SIGNBYTES bytes verify calls the primitive once,
\* with the caller's signature, message and public key, and returns its
\* outcome: Ok exactly when it accepts, Err(Verify) exactly when it rejects,
\* never Err(Input).
C7_Delegation ==
  (ret.op = "verify" /\ Len(inp.sig) = SIGNBYTES)
    => /\ ret.primArgs = <<<<inp.sig, inp.msg, inp.pk>>>>
       /\ (ret.result = "Ok") <=> (ret.prim = "Ok")
       /\ (ret.result = "Verify") <=> (ret.prim = "Verify")
       /\ ret.result # "Input"

C7_Witness ==
  /\ ret.op = "verify"
  /\ inp.sig \in ComputedSigs
  /\ Len(inp.pk) = PUBLICKEYBYTES
  /\ ret.prim = "Verify"
  /\ ret.result = "Verify"

\* C8: compare_secrets is true exactly when the two secrets agree at every
\* position; the public fields play no part; it is reflexive (also for a
\* clone) and symmetric.
C8_CompareSecrets ==
  ret.op = "compare_secrets" =>
    LET a == heap[ret.slot]
        b == heap[ret.other]
    IN /\ ret.equal <=> (\A i \in 1..SECRETKEYBYTES : a.secret[i] = b.secret[i])
       /\ ret.equal <=> compare_secrets(b, a).equal
       /\ Value(a) = Value(b) => ret.equal

C8_Witness ==
  /\ ret.op = "compare_secrets"
  /\ ret.slot # ret.other
  /\ heap[ret.slot].secret = heap[ret.other].secret
  /\ heap[ret.slot].public # heap[ret.other].public
  /\ ret.equal

\* C9: the debug text is "public: ", the public key, then the placeholder
\* "secret: <elided>"; Keypairs with the same public key render the same
\* text whatever their secrets.
C9_DebugElided ==
  ret.op = "fmt" =>
    LET k == heap[ret.slot]
        n == Len(ret.text)
    IN /\ n >= 2
       /\ ret.text[1] = "public: "
       /\ SubSeq(ret.text, 2, n - 1) = DebugBytes(k.public)
       /\ ret.text[n] = "\nsecret: <elided>"
       /\ \A t \in Slots :
            (heap[t].live /\ heap[t].public = k.public) => fmt(heap[t]) = ret.text

C9_Witness ==
  /\ ret.op = "fmt"
  /\ \E t \in Slots :
       /\ heap[t].live
       /\ heap[t].public = heap[ret.slot].public
       /\ heap[t].secret # heap[ret.slot].secret

\* C10: compare_secrets examines all SECRETKEYBYTES byte pairs, whether the
\* secrets are equal, differ in the first byte or differ only in the last.
C10_FullScan ==
  ret.op = "compare_secrets" => ret.examined = SECRETKEYBYTES

C10_Witness ==
  /\ ret.op = "compare_secrets"
  /\ heap[ret.slot].secret[1] # heap[ret.other].secret[1]
  /\ ~ret.equal
  /\ ret.examined = SECRETKEYBYTES

=============================================================================
